---- MODULE Spec2Model ----
(***************************************************************************)
(* A model of the storage core of ankitrgadiya/scratch (package db, file   *)
(* src/pkg/utils/utils.go): the tables fs, fts, domains and keys of the    *)
(* SQLite database, the store-wide sync.RWMutex of FileSystem, and the     *)
(* operations Save, Get, Exists, SetDomain, UpdateDomain, SetKey and       *)
(* CheckKey.                                                               *)
(*                                                                         *)
(* Representation.                                                         *)
(*  - A table is the sequence of its rows in rowid (insertion) order; no   *)
(*    statement of the program deletes a row.                              *)
(*  - Domain names and passwords are sequences of one-character strings,   *)
(*    so that strings.ToLower and the key bcrypt reads are computed, not   *)
(*    assumed.  File ids, slugs and texts are TLA+ strings; texts are      *)
(*    valid UTF-8, for which the JSON encoding of the history column is    *)
(*    lossless.                                                            *)
(*  - A versionedtext.VersionedText is the sequence of the versions it     *)
(*    can reconstruct, oldest first; the last one is CurrentText.          *)
(*  - time.Now() is a strictly increasing counter.                         *)
(***************************************************************************)
EXTENDS Integers, Sequences, FiniteSets, TLC

VARIABLES
    fsTab,      \* table fs: rows [id, domainid, slug, created, modified, history, views]
    fts,        \* virtual table fts: rows [id, data]
    domains,    \* table domains: rows [name, hashed_pass, ispublic, options]; id = position
    keys,       \* table keys: rows [domainid, key, lastused]
    clock,      \* the last value time.Now() returned
    nextKey,    \* the state of the random source src: how many ids utils.UUID() has made
    lock,       \* FileSystem.RWMutex: 0 when free, else the process holding Lock()
    pc,         \* per process: where it is in its operation
    op,         \* per process: the operation it runs and its arguments
    loc,        \* per process: the local variables of the running operation
    ret,        \* per process: what its operation returned
    order,      \* ghost: the callers of one storage operation, in the order they acquired the lock
    last,       \* ghost: the last whole operation run and its result
    saved,      \* ghost: per file id, the texts its Saves wrote to fs, in order
    storedPw,   \* ghost: per stored domain name, the password stored last
    issued,     \* ghost: the successful SetKey calls [token, domain, domainid, password]
    blobs,      \* table blobs: rows [id, name, data, views]
    cached_images, \* table cached_images: rows [id, name, data, views]
    reads,      \* ghost: per table and id, the successful reads since the row was stored
    tasks       \* per process: the goroutine its getDomainListCookie started

vars == <<fsTab, fts, domains, keys, clock, nextKey, lock, pc, op, loc, ret,
          order, last, saved, storedPw, issued, blobs, cached_images, reads,
          tasks>>

dbVars == <<fsTab, fts, domains, keys, clock, nextKey>>
procVars == <<lock, pc, op, loc, ret, order, tasks>>
ghostVars == <<last, saved, storedPw, issued>>
blobVars == <<blobs, cached_images, reads>>

----------------------------------------------------------------------------
(* Bounds of the model. *)

MaxSaves == 2
MaxDomainRows == 2
MaxKeys == 1
MaxBatch == 2
MaxViews == 2
NumProcs == 2

(* bcrypt reads 72 bytes of key (golang.org/x/crypto/bcrypt as pinned by go.mod). *)
BcryptKeyBytes == 72

----------------------------------------------------------------------------
(* Strings. *)

Upper == <<"A","B","C","D","E","F","G","H","I","J","K","L","M",
           "N","O","P","Q","R","S","T","U","V","W","X","Y","Z">>
Lower == <<"a","b","c","d","e","f","g","h","i","j","k","l","m",
           "n","o","p","q","r","s","t","u","v","w","x","y","z">>

ToLowerChar(c) ==
    IF \E i \in DOMAIN Upper : Upper[i] = c
    THEN Lower[CHOOSE i \in DOMAIN Upper : Upper[i] = c]
    ELSE c

ToLower(s) == [i \in DOMAIN s |-> ToLowerChar(s[i])]

EmptyStr == << >>
Public == <<"p","u","b","l","i","c">>
NUL == "^@"

(* The inputs the model draws from. *)
Names == {EmptyStr, <<"a">>, <<"A">>, Public, <<"P","u","b","l","i","c">>}
FileDomains == {EmptyStr, <<"a">>, Public}
LongPrefix == [i \in 1..BcryptKeyBytes |-> "x"]
(* The passwords the model stores, and those it presents. *)
StoredPasswords == {EmptyStr, <<"p">>, LongPrefix \o <<"a">>}
Passwords == StoredPasswords \cup {LongPrefix \o <<"b">>}
(* The (ispublic, options) pairs the model passes to UpdateDomain. *)
Settings == {<<TRUE, "{}">>, <<FALSE, "{css}">>}
BlobIDs == {"b1", "b2"}
Payloads == {"p1", "p2"}
FileIDs == {"x", "y"}
Slugs == {"s", "x"}
Contents == {"", "d1", "d2"}

Nil == "nil"
ErrDomainMissing == "domain does not exist"
ErrDomainExists == "domain already exists"
ErrWrongPassword == "incorrect password to log into domain"
ErrNoFiles == "no files with that slug or id"
ErrNoRows == "sql: no rows in result set"
ErrNoSuchKey == "no such key"
ErrStorage == "storage failure"

----------------------------------------------------------------------------
(* Sequences as tables. *)

Range(s) == {s[i] : i \in DOMAIN s}

RECURSIVE OrderByModifiedAsc(_)
(* The files of the set fl as a sequence, earliest Modified first. *)
OrderByModifiedAsc(fl) ==
    IF fl = {} THEN << >>
    ELSE LET m == CHOOSE r \in fl : \A q \in fl : r.Modified <= q.Modified
         IN <<m>> \o OrderByModifiedAsc(fl \ {m})

RECURSIVE OrderByModifiedDesc(_)
(* The files of the set fl as a sequence, latest Modified first. *)
OrderByModifiedDesc(fl) ==
    IF fl = {} THEN << >>
    ELSE LET m == CHOOSE r \in fl : \A q \in fl : q.Modified <= r.Modified
         IN <<m>> \o OrderByModifiedDesc(fl \ {m})

----------------------------------------------------------------------------
(* versionedtext.VersionedText, as used by Save. *)

NewVersionedText(text) == <<text>>

CurrentText(h) == h[Len(h)]

(* An Update that adds a version for every text it is given. *)
UpdateAlwaysAppends(h, text) == Append(h, text)

Update(h, text) == IF CurrentText(h) = text THEN h ELSE Append(h, text)

----------------------------------------------------------------------------
(* Password hashing (utils.HashPassword, utils.CheckPasswordHash). *)

(* The key bcrypt derives the hash from: the password followed by a NUL    *)
(* byte, repeated cyclically, of which Blowfish's key expansion reads the  *)
(* first BcryptKeyBytes bytes.                                             *)
BcryptKey(password) ==
    LET ckey == Append(password, NUL)
    IN [i \in 1..BcryptKeyBytes |-> ckey[((i - 1) % Len(ckey)) + 1]]

(* The stored hash.  The random salt and the hex encoding are left out:    *)
(* CheckPasswordHash undoes the encoding and reads the salt from the hash. *)
HashPassword(password) == BcryptKey(password)

CheckPasswordHash(hash, password) ==
    IF hash = BcryptKey(password) THEN Nil ELSE ErrWrongPassword

----------------------------------------------------------------------------
(* Queries on the domains table. *)

(* DomainOptions as stored: NULL until UpdateDomain writes the JSON. *)
NullOptions == "NULL"
ZeroOptions == "{}"

(* SELECT id FROM domains WHERE name = ?  (BINARY collation: exact match). *)
DomainIdsNamed(doms, name) == {i \in DOMAIN doms : doms[i].name = name}

RECURSIVE ScanDomainRows(_, _, _)
(* The loop of getDomainFromName over the matching rows, in rowid order:   *)
(* each row overwrites domainid, hashedPassword and ispublic; a NULL       *)
(* options column makes json.Unmarshal fail and leaves options as it was.  *)
ScanDomainRows(doms, ids, acc) ==
    IF ids = {} THEN acc
    ELSE LET i == CHOOSE j \in ids : \A k \in ids : j <= k
             row == doms[i]
         IN ScanDomainRows(doms, ids \ {i},
                [domainid |-> i,
                 hashedPassword |-> row.hashed_pass,
                 ispublic |-> row.ispublic,
                 options |-> IF row.options = NullOptions
                             THEN acc.options ELSE row.options])

getDomainFromName(doms, domain) ==
    ScanDomainRows(doms, DomainIdsNamed(doms, domain),
        [domainid |-> 0, hashedPassword |-> EmptyStr, ispublic |-> 0,
         options |-> ZeroOptions])

(* validateDomain: the domain id and the error. *)
validateDomain(doms, domain, password) ==
    LET d == getDomainFromName(doms, ToLower(domain))
    IN IF d.domainid = 0
       THEN [domainid |-> 0, err |-> ErrDomainMissing]
       ELSE [domainid |-> d.domainid,
             err |-> CheckPasswordHash(d.hashedPassword, password)]

(* setDomain: INSERT INTO domains (name, hashed_pass, ispublic). *)
setDomain(doms, domain, password) ==
    Append(doms, [name |-> ToLower(domain),
                  hashed_pass |-> HashPassword(password),
                  ispublic |-> 0,
                  options |-> NullOptions])

(* The UPDATE statements of UpdateDomain: every row WHERE name = ?. *)
updateDomainRows(doms, domain, password, ispublic, options) ==
    [i \in DOMAIN doms |->
        IF doms[i].name = ToLower(domain)
        THEN [name |-> doms[i].name,
              hashed_pass |-> IF password = EmptyStr THEN doms[i].hashed_pass
                              ELSE HashPassword(password),
              ispublic |-> IF ispublic THEN 1 ELSE 0,
              options |-> options]
        ELSE doms[i]]

(* SetDomain: the error and the table after it. *)
SetDomainOutcome(doms, domain, password) ==
    IF getDomainFromName(doms, domain).domainid # 0
    THEN [err |-> ErrDomainExists, domains |-> doms]
    ELSE [err |-> Nil, domains |-> setDomain(doms, domain, password)]

(* UpdateDomain: the error and the table after it. *)
UpdateDomainOutcome(doms, domain, password, ispublic, options) ==
    IF getDomainFromName(doms, domain).domainid = 0
    THEN [err |-> ErrDomainMissing, domains |-> doms]
    ELSE [err |-> Nil,
          domains |-> updateDomainRows(doms, domain, password, ispublic, options)]

(* The domains table InitializeDB leaves in a new database:                *)
(* setDomain("public", "") and then UpdateDomain("public", "", true, {}).  *)
InitialDomains ==
    UpdateDomainOutcome(setDomain(<< >>, Public, EmptyStr),
                        Public, EmptyStr, TRUE, ZeroOptions).domains

----------------------------------------------------------------------------
(* InitializeDB: the schema statements in the order of the code, then the  *)
(* public domain.                                                          *)

SchemaStatements ==
    <<"fs", "fts", "domains", "keys", "blobs", "drop cached_images",
      "cached_images", "drop cached_html", "cached_html", "fsslugs",
      "domainsname">>

RECURSIVE ErrAfterStatements(_, _, _)
(* _, err = fs.DB.Exec(sqlStmt) for each statement after the first: every  *)
(* Exec assigns err, and no test of it returns.                            *)
ErrAfterStatements(stmts, failing, err) ==
    IF stmts = << >> THEN err
    ELSE ErrAfterStatements(Tail(stmts), failing,
                            IF Head(stmts) \in failing THEN ErrStorage ELSE Nil)

(* The error InitializeDB returns when the statements in failing fail: the *)
(* first statement returns its error at once; the value returned at the    *)
(* end is the err of the last Exec.                                        *)
InitializeDBError(failing) ==
    IF Head(SchemaStatements) \in failing THEN ErrStorage
    ELSE ErrAfterStatements(Tail(SchemaStatements), failing, Nil)

(* New: err = fs.InitializeDB(); a non-nil err is wrapped and returned. *)
NewError(failing) == InitializeDBError(failing)

(* The domains after InitializeDB: "public" is made when                   *)
(* getDomainFromName("public") finds no row.                               *)
InitializeDBDomains(doms, failing) ==
    IF Head(SchemaStatements) \in failing THEN doms
    ELSE IF getDomainFromName(doms, Public).domainid # 0 THEN doms
    ELSE UpdateDomainOutcome(setDomain(doms, Public, EmptyStr),
                             Public, EmptyStr, TRUE, ZeroOptions).domains

(* The table cached_images after InitializeDB: DROP TABLE IF EXISTS        *)
(* cached_images, then CREATE TABLE IF NOT EXISTS cached_images.           *)
InitializeDBImages(images, failing) ==
    IF Head(SchemaStatements) \in failing \/ "drop cached_images" \in failing
    THEN images
    ELSE {}

----------------------------------------------------------------------------
(* Queries on the tables fs and fts. *)

(* isID: SELECT id FROM fs WHERE id = ?. *)
isID(fsT, id) == \E i \in DOMAIN fsT : fsT[i].id = id

(* idExists: SELECT id FROM fts WHERE id = ?. *)
idExists(ftsT, id) == \E i \in DOMAIN ftsT : ftsT[i].id = id

(* One result row of getAllFromPreparedQuery: the columns the queries      *)
(* select, scanned into a File.  No query selects the domain, and the      *)
(* Domain field keeps Go's zero value.                                     *)
ScanFile(row, data) ==
    [ID |-> row.id, Slug |-> row.slug, Created |-> row.created,
     Modified |-> row.modified, Data |-> data, Domain |-> EmptyStr,
     History |-> row.history, Views |-> row.views]

(* fs INNER JOIN fts ON fs.id = fts.id: the pairs of positions. *)
JoinFts(fsT, ftsT) ==
    {ij \in (DOMAIN fsT) \X (DOMAIN ftsT) : fsT[ij[1]].id = ftsT[ij[2]].id}

(* get, the branch taken when isID: the join WHERE fs.id = ? LIMIT 1. *)
getById(fsT, ftsT, id) ==
    LET hits == {ij \in JoinFts(fsT, ftsT) : fsT[ij[1]].id = id}
    IN IF hits = {} THEN << >>
       ELSE LET first == CHOOSE ij \in hits :
                            \A kl \in hits : ij[1] < kl[1]
                                \/ (ij[1] = kl[1] /\ ij[2] <= kl[2])
            IN <<ScanFile(fsT[first[1]], ftsT[first[2]].data)>>

(* get, the other branch: the join with domains WHERE fs.id IN (SELECT id  *)
(* FROM fs WHERE slug = ?) AND domains.name = ? ORDER BY modified DESC.    *)
getBySlug(fsT, ftsT, doms, slug, domain) ==
    LET hits == {ij \in JoinFts(fsT, ftsT) :
                    /\ fsT[ij[1]].slug = slug
                    /\ fsT[ij[1]].domainid \in DomainIdsNamed(doms, domain)}
    IN OrderByModifiedDesc({ScanFile(fsT[ij[1]], ftsT[ij[2]].data) : ij \in hits})

(* A get that looks the id up in the named domain only. *)
getInDomainOnly(fsT, ftsT, doms, id, domain) ==
    LET files == IF \E i \in DOMAIN fsT :
                       /\ fsT[i].id = id
                       /\ fsT[i].domainid \in DomainIdsNamed(doms, domain)
                 THEN getById(fsT, ftsT, id)
                 ELSE getBySlug(fsT, ftsT, doms, id, domain)
    IN [files |-> files, err |-> IF Len(files) > 0 THEN Nil ELSE ErrNoFiles]

(* FileSystem.get: the files and the error. *)
get(fsT, ftsT, doms, id, domain) ==
    LET files == IF isID(fsT, id) THEN getById(fsT, ftsT, id)
                 ELSE getBySlug(fsT, ftsT, doms, id, domain)
    IN [files |-> files, err |-> IF Len(files) > 0 THEN Nil ELSE ErrNoFiles]

----------------------------------------------------------------------------
(* FileSystem.Save, statement by statement.  A file f is the argument of   *)
(* Save: [ID, Slug, Created, Data, Domain].                                *)

(* A Save that does not reload the stored history. *)
SaveHistoryNotReloaded(fsT, ftsT, doms, f) == NewVersionedText(f.Data)

(* The history Save writes: the stored one extended, or a new one. *)
SaveHistory(fsT, ftsT, doms, f) ==
    LET files == get(fsT, ftsT, doms, f.ID, f.Domain).files
    IN IF Len(files) = 1
       THEN Update(files[1].History, f.Data)
       ELSE NewVersionedText(f.Data)

(* if f.Domain == "" { f.Domain = "public" } *)
SaveDomainName(f) == IF f.Domain = EmptyStr THEN Public ELSE f.Domain

(* domainid, _, _, _, _ := fs.getDomainFromName(f.Domain) *)
SaveDomainId(doms, f) == getDomainFromName(doms, SaveDomainName(f)).domainid

(* A Save without the test of the domain id. *)
SaveRejectsNothing(domainid) == FALSE

(* if domainid == 0 { return errors.New("domain does not exist") } *)
SaveRejects(domainid) == domainid = 0

(* INSERT OR REPLACE in the place of INSERT OR IGNORE. *)
SaveInsertOrReplace(fsT, f, domainid, history, now) ==
    Append(SelectSeq(fsT, LAMBDA r : r.id # f.ID),
           [id |-> f.ID, domainid |-> domainid, slug |-> f.Slug,
            created |-> f.Created, modified |-> now,
            history |-> history, views |-> 0])

(* INSERT OR IGNORE INTO fs (id, domainid, slug, created, modified, history). *)
SaveInsert(fsT, f, domainid, history, now) ==
    IF isID(fsT, f.ID) THEN fsT
    ELSE Append(fsT, [id |-> f.ID, domainid |-> domainid, slug |-> f.Slug,
                      created |-> f.Created, modified |-> now,
                      history |-> history, views |-> 0])

(* UPDATE fs SET slug = ?, modified = ?, history = ? WHERE id = ?. *)
SaveUpdate(fsT, f, history, now) ==
    [i \in DOMAIN fsT |->
        IF fsT[i].id = f.ID
        THEN [fsT[i] EXCEPT !.slug = f.Slug, !.modified = now,
                            !.history = history]
        ELSE fsT[i]]

(* An index sync that inserts without asking idExists. *)
SaveIndexAlwaysInserts(ftsT, f) == Append(ftsT, [id |-> f.ID, data |-> f.Data])

(* The index sync: INSERT INTO fts when idExists finds no row, else        *)
(* UPDATE fts SET data = ? WHERE id = ?.                                   *)
SaveIndex(ftsT, f) ==
    IF idExists(ftsT, f.ID)
    THEN [i \in DOMAIN ftsT |->
            IF ftsT[i].id = f.ID THEN [ftsT[i] EXCEPT !.data = f.Data]
            ELSE ftsT[i]]
    ELSE Append(ftsT, [id |-> f.ID, data |-> f.Data])

(* Save as a whole, with every database call succeeding: the error, the    *)
(* tables after it and the clock after its two time.Now() calls.           *)
SaveOutcome(fsT, ftsT, doms, now, f) ==
    LET history == SaveHistory(fsT, ftsT, doms, f)
        domainid == SaveDomainId(doms, f)
    IN IF SaveRejects(domainid)
       THEN [err |-> ErrDomainMissing, fs |-> fsT, fts |-> ftsT, now |-> now]
       ELSE [err |-> Nil,
             fs |-> SaveUpdate(SaveInsert(fsT, f, domainid, history, now + 1),
                               f, history, now + 2),
             fts |-> SaveIndex(ftsT, f),
             now |-> now + 2]

(* FileSystem.Get: get under the lock. *)
Get(fsT, ftsT, doms, id, domain) == get(fsT, ftsT, doms, id, domain)

----------------------------------------------------------------------------
(* UpdateViews.  A file f is here the File the caller holds: its ID and    *)
(* the Views it had when the caller read it.                               *)

(* An UpdateViews that counts in the database: SET views = views + 1. *)
UpdateViewsInPlace(fsT, f) ==
    [i \in DOMAIN fsT |->
        IF fsT[i].id = f.ID THEN [fsT[i] EXCEPT !.views = @ + 1] ELSE fsT[i]]

(* UPDATE fs SET views = ? WHERE id = ?, with f.Views + 1 and f.ID. *)
UpdateViews(fsT, f) ==
    [i \in DOMAIN fsT |->
        IF fsT[i].id = f.ID THEN [fsT[i] EXCEPT !.views = f.Views + 1]
        ELSE fsT[i]]

(* The views column of the row of id, 0 when no row has the id. *)
StoredViews(fsT, id) ==
    IF isID(fsT, id)
    THEN fsT[CHOOSE i \in DOMAIN fsT : fsT[i].id = id].views
    ELSE 0

----------------------------------------------------------------------------
(* Blobs and cached resized images.  Both tables have the primary key id   *)
(* and the column views INTEGER DEFAULT 0.                                 *)

(* INSERT OR REPLACE INTO t (id, name, data): the row of the id is         *)
(* replaced whole, so its views are 0 again.                               *)
InsertOrReplace(table, id, name, data) ==
    {r \in table : r.id # id}
        \cup {[id |-> id, name |-> name, data |-> data, views |-> 0]}

SaveBlob(blobsT, id, name, data) == InsertOrReplace(blobsT, id, name, data)

SaveResizedImage(imagesT, id, name, data) ==
    InsertOrReplace(imagesT, id, name, data)

(* UPDATE t SET views = ? WHERE id = ?. *)
SetViews(table, id, views) ==
    {[r EXCEPT !.views = IF r.id = id THEN views ELSE @] : r \in table}

(* The views of the row of id, 0 when the table has no such row. *)
ViewsOf(table, id) ==
    IF \E r \in table : r.id = id
    THEN (CHOOSE r \in table : r.id = id).views
    ELSE 0

(* What a read returns when it stops before or at the Scan. *)
NoPayload(err) == [name |-> EmptyStr, data |-> EmptyStr, views |-> 0, err |-> err]

(* The SELECT and the UPDATE of GetBlob and GetResizedImage: the row is    *)
(* read from readT, and views + 1 is written to the table blobs.  fail     *)
(* names the database call that fails: "read", "update" or "none".  The    *)
(* results are named: after the Scan they hold the payload, and err holds  *)
(* the error of the last call.                                             *)
ReadAndCount(readT, blobsT, id, fail) ==
    IF fail = "read" THEN [blobs |-> blobsT, out |-> NoPayload(ErrStorage)]
    ELSE IF ~ \E r \in readT : r.id = id
    THEN [blobs |-> blobsT, out |-> NoPayload(ErrNoRows)]
    ELSE LET r == CHOOSE r \in readT : r.id = id
         IN [blobs |-> IF fail = "update" THEN blobsT
                       ELSE SetViews(blobsT, id, r.views + 1),
             out |-> [name |-> r.name, data |-> r.data, views |-> r.views,
                      err |-> IF fail = "update" THEN ErrStorage ELSE Nil]]

GetBlob(blobsT, id, fail) == ReadAndCount(blobsT, blobsT, id, fail)

GetResizedImage(imagesT, blobsT, id, fail) ==
    LET res == ReadAndCount(imagesT, blobsT, id, fail)
    IN [blobs |-> res.blobs, images |-> imagesT, out |-> res.out]

----------------------------------------------------------------------------
(* Listings and search: GetAll, GetTopX, GetTopXMostViews and Find.  The   *)
(* order SQLite gives rows of equal sort key is not fixed by the query, so *)
(* an operation is the set of the results it can return.                   *)

(* The sequences that hold each file of S once, sorted by the field key,   *)
(* descending.                                                             *)
OrderedDesc(S, key) ==
    {sq \in [1..Cardinality(S) -> S] :
        /\ \A i, j \in 1..Cardinality(S) : sq[i] = sq[j] => i = j
        /\ \A i, j \in 1..Cardinality(S) : i < j => sq[i][key] >= sq[j][key]}

(* LIMIT ?: a negative limit is no limit. *)
Limit(sq, num) ==
    IF num < 0 \/ num >= Len(sq) THEN sq ELSE SubSeq(sq, 1, num)

(* A listing that keeps the files of empty text. *)
ListedWithEmptyText(fsT, ftsT, doms, domain) ==
    {ij \in JoinFts(fsT, ftsT) :
        fsT[ij[1]].domainid \in DomainIdsNamed(doms, domain)}

(* A listing that forgets the domain. *)
ListedOfEveryDomain(fsT, ftsT, doms, domain) ==
    {ij \in JoinFts(fsT, ftsT) : ftsT[ij[2]].data # ""}

(* FROM fs INNER JOIN fts ON fs.id=fts.id INNER JOIN domains ON             *)
(* fs.domainid=domains.id WHERE domains.name = ? AND LENGTH(fts.data) > 0. *)
Listed(fsT, ftsT, doms, domain) ==
    {ij \in JoinFts(fsT, ftsT) :
        /\ fsT[ij[1]].domainid \in DomainIdsNamed(doms, domain)
        /\ ftsT[ij[2]].data # ""}

ListedFiles(fsT, ftsT, doms, domain) ==
    {ScanFile(fsT[ij[1]], ftsT[ij[2]].data) :
        ij \in Listed(fsT, ftsT, doms, domain)}

(* GetAll: ORDER BY fs.created DESC or fs.modified DESC; then every file   *)
(* gets files[i].Domain = domain.                                          *)
GetAll(fsT, ftsT, doms, domain, created) ==
    {[i \in DOMAIN sq |-> [sq[i] EXCEPT !.Domain = domain]] :
        sq \in IF created
               THEN OrderedDesc(ListedFiles(fsT, ftsT, doms, domain), "Created")
               ELSE OrderedDesc(ListedFiles(fsT, ftsT, doms, domain), "Modified")}

(* GetTopX: the same query with LIMIT ?; Domain is not set. *)
GetTopX(fsT, ftsT, doms, domain, num, created) ==
    {Limit(sq, num) :
        sq \in IF created
               THEN OrderedDesc(ListedFiles(fsT, ftsT, doms, domain), "Created")
               ELSE OrderedDesc(ListedFiles(fsT, ftsT, doms, domain), "Modified")}

(* GetTopXMostViews: ORDER BY fs.views DESC LIMIT ?. *)
GetTopXMostViews(fsT, ftsT, doms, domain, num) ==
    {Limit(sq, num) :
        sq \in OrderedDesc(ListedFiles(fsT, ftsT, doms, domain), "Views")}

(* fts.data MATCH ?: a text of the model is one token, which a query that  *)
(* is this token matches; the empty text has no token.                     *)
Matches(data, text) == data # "" /\ data = text

(* snippet(fts, 1, '<b>', '</b>', '...', 30) of a matching text. *)
Snippet(data, text) == <<"<b>", data, "</b>">>

(* Find: FROM fts INNER JOIN fs INNER JOIN domains WHERE fts.data MATCH ?  *)
(* AND domains.name = ? ORDER BY modified DESC.  The empty query is a      *)
(* syntax error of fts5.                                                   *)
Find(fsT, ftsT, doms, text, domain) ==
    IF text = "" THEN [files |-> << >>, err |-> ErrStorage]
    ELSE LET hits == {ij \in JoinFts(fsT, ftsT) :
                         /\ Matches(ftsT[ij[2]].data, text)
                         /\ fsT[ij[1]].domainid \in DomainIdsNamed(doms, domain)}
         IN [files |-> OrderByModifiedDesc(
                           {ScanFile(fsT[ij[1]], Snippet(ftsT[ij[2]].data, text)) :
                               ij \in hits}),
             err |-> Nil]

----------------------------------------------------------------------------
(* Keys (SetKey, CheckKey). *)

(* utils.UUID() under the lock of SetKey: the n-th call returns a token    *)
(* no earlier call returned.                                               *)
UUID(n) == n + 1

(* A SetKey that inserts the key row before it validates the password. *)
SetKeyInsertsFirst(keysT, doms, now, n, domain, password) ==
    LET v == validateDomain(doms, domain, password)
    IN [key |-> IF v.err = Nil THEN UUID(n) ELSE 0, err |-> v.err,
        domainid |-> v.domainid,
        keys |-> Append(keysT, [domainid |-> v.domainid, key |-> UUID(n),
                                lastused |-> now + 1])]

(* SetKey: the token, the error, and the keys table after it. *)
SetKeyOutcome(keysT, doms, now, n, domain, password) ==
    LET v == validateDomain(doms, domain, password)
    IN IF v.err # Nil
       THEN [key |-> 0, err |-> v.err, keys |-> keysT, domainid |-> v.domainid]
       ELSE [key |-> UUID(n), err |-> Nil, domainid |-> v.domainid,
             keys |-> Append(keysT, [domainid |-> v.domainid, key |-> UUID(n),
                                     lastused |-> now + 1])]

(* CheckKey: keys INNER JOIN domains ON keys.domainid = domains.id WHERE   *)
(* keys.key = ?, the first row (QueryRow), then the test of the name.      *)
CheckKey(keysT, doms, key) ==
    LET hits == {i \in DOMAIN keysT :
                    keysT[i].key = key /\ keysT[i].domainid \in DOMAIN doms}
    IN IF hits = {}
       THEN [domainid |-> 0, domain |-> EmptyStr, err |-> ErrNoRows]
       ELSE LET i == CHOOSE j \in hits : \A k \in hits : j <= k
                d == keysT[i].domainid
            IN [domainid |-> d, domain |-> doms[d].name,
                err |-> IF doms[d].name = EmptyStr THEN ErrNoSuchKey ELSE Nil]

RECURSIVE TouchKeys(_, _, _)
(* UpdateKeys, the loop: UPDATE keys SET lastused = ? WHERE key = ? for    *)
(* each token in turn, each with its own time.Now().                       *)
TouchKeys(keysT, tokens, now) ==
    IF tokens = << >> THEN keysT
    ELSE TouchKeys([i \in DOMAIN keysT |->
                       IF keysT[i].key = Head(tokens)
                       THEN [keysT[i] EXCEPT !.lastused = now + 1]
                       ELSE keysT[i]],
                   Tail(tokens), now + 1)

(* UpdateKeys: one transaction for the batch.  failAt = 0: no statement    *)
(* fails and the transaction commits.  failAt = i: the statement of the    *)
(* i-th token fails, UpdateKeys returns the error, and the transaction is  *)
(* never committed.                                                        *)
UpdateKeysOutcome(keysT, now, tokens, failAt) ==
    IF failAt = 0
    THEN [err |-> Nil, keys |-> TouchKeys(keysT, tokens, now),
          now |-> now + Len(tokens)]
    ELSE [err |-> ErrStorage, keys |-> keysT, now |-> now + failAt - 1]

----------------------------------------------------------------------------
(* The state New() returns: InitializeDB has created the tables and the    *)
(* public domain; no process runs an operation.                            *)

Procs == 1..NumProcs
NoOp == [name |-> "none"]
NoLoc == [none |-> TRUE]
NoRet == [none |-> TRUE]
NoTask == [pc |-> "none"]

Init ==
    /\ fsTab = << >>
    /\ fts = << >>
    /\ domains = InitialDomains
    /\ keys = << >>
    /\ clock = 0
    /\ nextKey = 0
    /\ lock = 0
    /\ pc = [p \in Procs |-> "idle"]
    /\ op = [p \in Procs |-> NoOp]
    /\ loc = [p \in Procs |-> NoLoc]
    /\ ret = [p \in Procs |-> NoRet]
    /\ order = << >>
    /\ last = [op |-> "New"]
    /\ saved = [id \in FileIDs |-> << >>]
    /\ storedPw = (Public :> EmptyStr)
    /\ issued = {}
    /\ blobs = {}
    /\ cached_images = {}
    /\ reads = [t \in {"blobs", "cached_images"} |-> [id \in BlobIDs |-> 0]]
    /\ tasks = [p \in Procs |-> NoTask]

----------------------------------------------------------------------------
(* Whole operations, one action each: the operations as one caller at a    *)
(* time runs them.                                                         *)

(* The files the model saves; the caller stamps Created with time.Now(). *)
Files == [ID : FileIDs, Slug : Slugs, Created : {clock}, Data : Contents,
          Domain : FileDomains]

(* Save(f) repeats the Save before it: the last operation was a successful *)
(* Save with the same ID, Slug, Domain and Data.                           *)
Repeats(f) ==
    /\ last.op = "Save"
    /\ last.err = Nil
    /\ last.f.ID = f.ID
    /\ last.f.Slug = f.Slug
    /\ last.f.Domain = f.Domain
    /\ last.f.Data = f.Data

SaveOp(f) ==
    /\ clock < 2 * MaxSaves
    /\ LET r == SaveOutcome(fsTab, fts, domains, clock, f)
       IN /\ fsTab' = r.fs
          /\ fts' = r.fts
          /\ clock' = r.now
          /\ last' = [op |-> "Save", f |-> f, err |-> r.err,
                      again |-> Repeats(f)]
          /\ saved' = IF r.err = Nil
                      THEN [saved EXCEPT ![f.ID] = Append(@, f.Data)]
                      ELSE saved
    /\ UNCHANGED <<domains, keys, nextKey, storedPw, issued>>
    /\ UNCHANGED procVars
    /\ UNCHANGED blobVars

SetDomainOp(domain, password) ==
    /\ LET r == SetDomainOutcome(domains, domain, password)
       IN /\ domains' = r.domains
          /\ last' = [op |-> "SetDomain", err |-> r.err]
          /\ storedPw' = IF r.err = Nil
                         THEN (ToLower(domain) :> password) @@ storedPw
                         ELSE storedPw
    /\ UNCHANGED <<fsTab, fts, keys, clock, nextKey, saved, issued>>
    /\ UNCHANGED procVars
    /\ UNCHANGED blobVars

UpdateDomainOp(domain, password, ispublic, options) ==
    /\ LET r == UpdateDomainOutcome(domains, domain, password, ispublic, options)
       IN /\ domains' = r.domains
          /\ last' = [op |-> "UpdateDomain", err |-> r.err]
          /\ storedPw' = IF r.err = Nil /\ password # EmptyStr
                         THEN (ToLower(domain) :> password) @@ storedPw
                         ELSE storedPw
    /\ UNCHANGED <<fsTab, fts, keys, clock, nextKey, saved, issued>>
    /\ UNCHANGED procVars
    /\ UNCHANGED blobVars

(* UpdateViews(f); ok = FALSE: a database call fails and UpdateViews        *)
(* returns its error before the commit.                                    *)
UpdateViewsOp(f, ok) ==
    /\ f.Views < MaxViews
    /\ fsTab' = IF ok THEN UpdateViews(fsTab, f) ELSE fsTab
    /\ last' = [op |-> "UpdateViews", f |-> f,
                before |-> StoredViews(fsTab, f.ID),
                err |-> IF ok THEN Nil ELSE ErrStorage]
    /\ UNCHANGED <<fts, domains, keys, clock, nextKey, saved, storedPw, issued>>
    /\ UNCHANGED procVars
    /\ UNCHANGED blobVars

(* SaveBlob and SaveResizedImage. *)
SaveBlobOp(id, data) ==
    /\ blobs' = SaveBlob(blobs, id, "n", data)
    /\ reads' = [reads EXCEPT !["blobs"][id] = 0]
    /\ last' = [op |-> "SaveBlob", id |-> id, err |-> Nil]
    /\ UNCHANGED <<dbVars, procVars, saved, storedPw, issued, cached_images>>

SaveResizedImageOp(id, data) ==
    /\ cached_images' = SaveResizedImage(cached_images, id, "n", data)
    /\ reads' = [reads EXCEPT !["cached_images"][id] = 0]
    /\ last' = [op |-> "SaveResizedImage", id |-> id, err |-> Nil]
    /\ UNCHANGED <<dbVars, procVars, saved, storedPw, issued, blobs>>

(* GetBlob(id) and GetResizedImage(id); fail names the failing call. *)
GetBlobOp(id, fail) ==
    LET res == GetBlob(blobs, id, fail)
    IN /\ ViewsOf(blobs, id) < MaxViews
       /\ reads["blobs"][id] < MaxViews
       /\ blobs' = res.blobs
       /\ reads' = IF res.out.err = Nil
                   THEN [reads EXCEPT !["blobs"][id] = @ + 1] ELSE reads
       /\ last' = [op |-> "GetBlob", id |-> id, fail |-> fail, out |-> res.out,
                   found |-> \E r \in blobs : r.id = id]
       /\ UNCHANGED <<dbVars, procVars, saved, storedPw, issued, cached_images>>

GetResizedImageOp(id, fail) ==
    LET res == GetResizedImage(cached_images, blobs, id, fail)
    IN /\ reads["cached_images"][id] < MaxViews
       /\ blobs' = res.blobs
       /\ cached_images' = res.images
       /\ reads' = IF res.out.err = Nil
                   THEN [reads EXCEPT !["cached_images"][id] = @ + 1] ELSE reads
       /\ last' = [op |-> "GetResizedImage", id |-> id, fail |-> fail,
                   out |-> res.out,
                   found |-> \E r \in cached_images : r.id = id]
       /\ UNCHANGED <<dbVars, procVars, saved, storedPw, issued>>

(* InitializeDB run on the open store; the statements in failing fail. *)
InitializeDBOp(failing) ==
    /\ domains' = InitializeDBDomains(domains, failing)
    /\ cached_images' = InitializeDBImages(cached_images, failing)
    /\ reads' = IF cached_images' = cached_images THEN reads
                ELSE [reads EXCEPT !["cached_images"] = [id \in BlobIDs |-> 0]]
    /\ last' = [op |-> "InitializeDB", failing |-> failing,
                err |-> NewError(failing)]
    /\ UNCHANGED <<fsTab, fts, keys, clock, nextKey, saved, storedPw, issued>>
    /\ UNCHANGED <<procVars, blobs>>

SetKeyOpUpTo(domain, password, max) ==
    /\ Len(keys) < max
    /\ LET r == SetKeyOutcome(keys, domains, clock, nextKey, domain, password)
       IN /\ keys' = r.keys
          /\ clock' = IF r.err = Nil THEN clock + 1 ELSE clock
          /\ nextKey' = IF r.err = Nil THEN nextKey + 1 ELSE nextKey
          /\ last' = [op |-> "SetKey", key |-> r.key, err |-> r.err]
          /\ issued' = IF r.err = Nil
                       THEN issued \cup {[token |-> r.key, domain |-> domain,
                                          domainid |-> r.domainid,
                                          password |-> password]}
                       ELSE issued
    /\ UNCHANGED <<fsTab, fts, domains, saved, storedPw>>
    /\ UNCHANGED procVars
    /\ UNCHANGED blobVars

SetKeyOp(domain, password) == SetKeyOpUpTo(domain, password, MaxKeys)

UpdateKeysOp(tokens, failAt) ==
    /\ clock < 3 * MaxBatch
    /\ LET r == UpdateKeysOutcome(keys, clock, tokens, failAt)
       IN /\ keys' = r.keys
          /\ clock' = r.now
          /\ last' = [op |-> "UpdateKeys", tokens |-> tokens, failAt |-> failAt,
                      err |-> r.err]
    /\ UNCHANGED <<fsTab, fts, domains, nextKey, saved, storedPw, issued>>
    /\ UNCHANGED procVars
    /\ UNCHANGED blobVars

CheckKeyOp(key) ==
    /\ last' = [op |-> "CheckKey", key |-> key,
                result |-> CheckKey(keys, domains, key)]
    /\ UNCHANGED <<dbVars, saved, storedPw, issued>>
    /\ UNCHANGED procVars
    /\ UNCHANGED blobVars

(* A Save that returns the error of a database call made after its first   *)
(* transaction committed: of the UPDATE transaction (stage "update", lines *)
(* 668-697) or of the index sync (stage "index", lines 699-732).  What     *)
(* committed before stays.                                                 *)
SaveInterruptedOutcome(fsT, ftsT, doms, now, f, stage) ==
    LET history == SaveHistory(fsT, ftsT, doms, f)
        domainid == SaveDomainId(doms, f)
        inserted == SaveInsert(fsT, f, domainid, history, now + 1)
    IN IF SaveRejects(domainid)
       THEN [err |-> ErrDomainMissing, fs |-> fsT, now |-> now]
       ELSE IF stage = "update"
       THEN [err |-> ErrStorage, fs |-> inserted, now |-> now + 1]
       ELSE [err |-> ErrStorage, fs |-> SaveUpdate(inserted, f, history, now + 2),
             now |-> now + 2]

SaveInterruptedOp(f, stage) ==
    /\ clock < 2 * MaxSaves
    /\ LET r == SaveInterruptedOutcome(fsTab, fts, domains, clock, f, stage)
           wrote == /\ r.err = ErrStorage
                    /\ (stage = "index" \/ ~isID(fsTab, f.ID))
       IN /\ fsTab' = r.fs
          /\ clock' = r.now
          /\ last' = [op |-> "Save", f |-> f, err |-> r.err, again |-> FALSE]
          /\ saved' = IF wrote THEN [saved EXCEPT ![f.ID] = Append(@, f.Data)]
                      ELSE saved
    /\ UNCHANGED <<fts, domains, keys, nextKey, storedPw, issued>>
    /\ UNCHANGED procVars
    /\ UNCHANGED blobVars

(* The file repository: Save, in the public domain, in a domain SetDomain  *)
(* has created, or in one that does not exist.                             *)
NextFile ==
    \/ \E f \in Files : SaveOp(f)
    \/ SetDomainOp(<<"a">>, EmptyStr)

SpecFile == Init /\ [][NextFile]_vars

(* The view counters: Saves that store files, and UpdateViews with the     *)
(* File values a caller can hold, read now or earlier.                     *)
ViewedFiles == {f \in Files : f.Domain = Public /\ f.Slug = "s" /\ f.Data = "d1"}
HeldFiles == [ID : FileIDs, Views : 0..MaxViews]

NextViews ==
    \/ \E f \in ViewedFiles : SaveOp(f)
    \/ \E f \in HeldFiles, ok \in BOOLEAN : UpdateViewsOp(f, ok)

SpecViews == Init /\ [][NextViews]_vars

(* The blob store: uploads and cached resized images saved and read. *)
ReadFailures == {"none", "read", "update"}

NextBlob ==
    \/ \E id \in BlobIDs, data \in Payloads : SaveBlobOp(id, data)
    \/ \E id \in BlobIDs, data \in Payloads : SaveResizedImageOp(id, data)
    \/ \E id \in BlobIDs, fail \in ReadFailures : GetBlobOp(id, fail)
    \/ \E id \in BlobIDs, fail \in ReadFailures : GetResizedImageOp(id, fail)

SpecBlob == Init /\ [][NextBlob]_vars

(* The file repository with Saves that fail part-way. *)
RetryFiles == {f \in Files : f.Domain = Public /\ f.Slug = "s"}

NextRetry ==
    \/ \E f \in RetryFiles : SaveOp(f)
    \/ \E f \in RetryFiles, stage \in {"update", "index"} :
          SaveInterruptedOp(f, stage)

SpecRetry == Init /\ [][NextRetry]_vars

(* The domain directory: SetDomain and UpdateDomain. *)
NextDomain ==
    \/ \E domain \in Names, password \in StoredPasswords :
          /\ Len(domains) < MaxDomainRows
          /\ SetDomainOp(domain, password)
    \/ \E domain \in Names, password \in {EmptyStr, <<"p">>}, set \in Settings :
          UpdateDomainOp(domain, password, set[1], set[2])

SpecDomain == Init /\ [][NextDomain]_vars

(* What can fail in one run of InitializeDB: nothing, or one statement,    *)
(* and with the creation of a table that of the index on it.               *)
Failures ==
    {{}} \cup {{SchemaStatements[i]} : i \in DOMAIN SchemaStatements}
         \cup {{"fs", "fsslugs"}, {"domains", "domainsname"}}

(* The store under SetDomain and repeated runs of InitializeDB. *)
NextInit ==
    \/ \E domain \in Names, password \in StoredPasswords :
          /\ Len(domains) < MaxDomainRows
          /\ SetDomainOp(domain, password)
    \/ \E failing \in Failures : InitializeDBOp(failing)

SpecInit == Init /\ [][NextInit]_vars

(* InitializeDB run again on a store that holds files, keys, blobs and     *)
(* cached resized images.                                                  *)
NextReinit ==
    \/ \E f \in ViewedFiles : SaveOp(f)
    \/ SetKeyOp(Public, EmptyStr)
    \/ \E id \in BlobIDs : SaveBlobOp(id, "p1")
    \/ \E id \in BlobIDs : SaveResizedImageOp(id, "p1")
    \/ \E failing \in {{}, {"fs"}, {"drop cached_images"}} :
          InitializeDBOp(failing)

SpecReinit == Init /\ [][NextReinit]_vars

(* The key registry: SetKey and CheckKey over the domains SetDomain makes. *)
Tokens == 1..(MaxKeys + 1)

NextKey ==
    \/ \E domain \in Names, password \in {EmptyStr, <<"p">>} :
          /\ Len(domains) < MaxDomainRows
          /\ SetDomainOp(domain, password)
    \/ \E domain \in Names, password \in {EmptyStr, <<"p">>} :
          SetKeyOp(domain, password)
    \/ \E key \in Tokens : CheckKeyOp(key)

SpecKey == Init /\ [][NextKey]_vars

(* The batches of tokens a request hands to UpdateKeys: the tokens of its  *)
(* cookie that CheckKey resolved, each once.                               *)
Batches ==
    {b \in UNION {[1..n -> 1..MaxBatch] : n \in 1..MaxBatch} :
        \A i, j \in DOMAIN b : b[i] = b[j] => i = j}

(* The key registry under UpdateKeys, with statements that may fail. *)
NextTouch ==
    \/ SetKeyOpUpTo(Public, EmptyStr, MaxBatch)
    \/ \E tokens \in Batches, failAt \in 0..MaxBatch :
          /\ failAt <= Len(tokens)
          /\ UpdateKeysOp(tokens, failAt)

SpecTouch == Init /\ [][NextTouch]_vars

(* The key registry under SetKey calls that succeed and that fail, for the *)
(* public domain, a created domain and an unknown one, with passwords that *)
(* SetDomain stored and that UpdateDomain changed.                         *)
NextIssue ==
    \/ \E password \in StoredPasswords :
          /\ Len(domains) < MaxDomainRows
          /\ SetDomainOp(<<"a">>, password)
    \/ \E domain \in {Public, <<"a">>}, password \in {EmptyStr, <<"p">>} :
          UpdateDomainOp(domain, password, TRUE, ZeroOptions)
    \/ \E domain \in {Public, <<"a">>, <<"A">>}, password \in Passwords :
          SetKeyOpUpTo(domain, password, MaxBatch)

SpecIssue == Init /\ [][NextIssue]_vars

----------------------------------------------------------------------------
(* The transaction of a storage operation.  SetKey and UpdateKeys, like    *)
(* the other operations, call tx, err := fs.DB.Begin(), tx.Prepare,        *)
(* stmt.Exec and tx.Commit, and return the error of the first call that    *)
(* fails.  failing names that call, "none" when every call succeeds.       *)
TxFailures == {"none", "Begin", "Prepare", "Exec", "Commit"}

(* What has become of the transaction when the operation returns.  A       *)
(* failed Begin made none; Commit ends it, with an error or without; the   *)
(* returns after a failed Prepare or Exec call neither Commit nor          *)
(* Rollback, and the deferred calls are fs.Unlock and stmt.Close only.     *)
TxAtReturn(failing) ==
    CASE failing = "none" -> "committed"
      [] failing = "Begin" -> "none"
      [] failing = "Commit" -> "ended"
      [] OTHER -> "open"

(* SetKey with a failing call.  utils.UUID() and time.Now() run between    *)
(* Prepare and Exec, so a call that fails at Exec or at Commit returns     *)
(* the key it made together with the error.                                *)
SetKeyTxOp(domain, password, failing) ==
    /\ Len(keys) < MaxBatch
    /\ nextKey < MaxBatch
    /\ LET r == SetKeyOutcome(keys, domains, clock, nextKey, domain, password)
           made == r.err = Nil /\ failing \notin {"Begin", "Prepare"}
           ok == r.err = Nil /\ failing = "none"
       IN /\ keys' = IF ok THEN r.keys ELSE keys
          /\ clock' = IF made THEN clock + 1 ELSE clock
          /\ nextKey' = IF made THEN nextKey + 1 ELSE nextKey
          /\ last' = [op |-> "SetKey",
                      key |-> IF made THEN r.key ELSE 0,
                      err |-> IF r.err # Nil THEN r.err
                              ELSE IF ok THEN Nil ELSE ErrStorage,
                      tx |-> IF r.err # Nil THEN "none"
                             ELSE TxAtReturn(failing)]
          /\ issued' = IF ok
                       THEN issued \cup {[token |-> r.key, domain |-> domain,
                                          domainid |-> r.domainid,
                                          password |-> password]}
                       ELSE issued
    /\ UNCHANGED <<fsTab, fts, domains, saved, storedPw>>
    /\ UNCHANGED procVars
    /\ UNCHANGED blobVars

(* UpdateKeys with a failing call: Prepare and Exec run once per token,    *)
(* and failAt is the token at which one of them fails; Begin and Commit    *)
(* run once, whatever the batch.                                           *)
UpdateKeysTxOp(tokens, failAt, failing) ==
    /\ clock < 3 * MaxBatch
    /\ failAt <= Len(tokens)
    /\ (failAt # 0) = (failing \in {"Prepare", "Exec"})
    /\ LET r == UpdateKeysOutcome(keys, clock, tokens, failAt)
       IN /\ keys' = IF failing = "none" THEN r.keys ELSE keys
          /\ clock' = CASE failing = "Begin" -> clock
                        [] failing = "Exec" -> r.now + 1
                        [] OTHER -> r.now
          /\ last' = [op |-> "UpdateKeys", tokens |-> tokens,
                      failAt |-> failAt,
                      err |-> IF failing = "none" THEN Nil ELSE ErrStorage,
                      tx |-> TxAtReturn(failing)]
    /\ UNCHANGED <<fsTab, fts, domains, nextKey, saved, storedPw, issued>>
    /\ UNCHANGED procVars
    /\ UNCHANGED blobVars

(* The key registry under calls whose database calls may fail. *)
NextTx ==
    \/ \E password \in {EmptyStr, <<"p">>}, failing \in TxFailures :
          SetKeyTxOp(Public, password, failing)
    \/ \E tokens \in Batches, failAt \in 0..MaxBatch, failing \in TxFailures :
          UpdateKeysTxOp(tokens, failAt, failing)

SpecTx == Init /\ [][NextTx]_vars

----------------------------------------------------------------------------
(* Concurrent callers.  Each process runs one operation, statement by      *)
(* statement: fs.Lock(), the database calls, and the return, which runs    *)
(* the deferred fs.Unlock().  Exists takes no lock.                        *)

ConcFiles == [ID : {"x"}, Slug : {"s"}, Created : {clock}, Data : Contents,
              Domain : {Public, <<"a">>}]

SaveCalls == {[name |-> "Save", f |-> f] : f \in ConcFiles}
GetCalls == {[name |-> "Get", id |-> "x", domain |-> Public]}
ExistsCalls == {[name |-> "Exists", id |-> id, domain |-> Public] : id \in {"x", "s"}}
SetKeyCalls == {[name |-> "SetKey", domain |-> Public, password |-> pw] :
                   pw \in {EmptyStr, <<"p">>}}

(* Where each operation starts: at fs.Lock(), or at its first query. *)
Entry(call) ==
    CASE call.name = "Exists" -> "exists_id"
      [] call.name = "getDomainListCookie" /\ call.cookie = << >> -> "cookie_go"
      [] call.name = "createPage" -> "page_uuid"
      [] OTHER -> "lock"

(* Where the holder of the lock continues. *)
Body(call) ==
    CASE call.name = "Save" -> "save_get"
      [] call.name = "Get" -> "get"
      [] call.name = "SetKey" -> "setkey_validate"
      [] call.name = "getDomainListCookie" -> "cookie_checkkey"

CriticalPcs == {"save_get", "save_insert", "save_update", "save_index", "get",
                "setkey_validate", "setkey_insert", "setkey_int63",
                "cookie_checkkey"}

(* The methods of FileSystem that begin with fs.Lock(). *)
LockTaking ==
    {"SaveBlob", "GetBlobIDs", "GetDomains", "SaveResizedImage",
     "GetResizedImage", "GetBlob", "Save", "SetKey", "UpdateViews", "CheckKey",
     "UpdateKeys", "SetDomain", "UpdateDomain", "GetDomainFromName", "GetAll",
     "GetTopX", "GetTopXMostViews", "Get", "Find"}

(* Save, Get and SetKey written against the exported methods. *)
CalleesExported(name) ==
    CASE name = "Save" -> {"Get", "GetDomainFromName", "idExists"}
      [] name = "Get" -> {"get", "isID", "getAllFromPreparedQuery"}
      [] name = "SetKey" -> {"validateDomain", "GetDomainFromName"}

(* The methods of FileSystem an operation calls while it holds the lock. *)
Callees(name) ==
    CASE name = "Save" -> {"get", "isID", "getAllFromPreparedQuery",
                           "getDomainFromName", "idExists"}
      [] name = "Get" -> {"get", "isID", "getAllFromPreparedQuery"}
      [] name = "SetKey" -> {"validateDomain", "getDomainFromName"}

(* sync.RWMutex is not reentrant: a holder that calls a lock-taking method *)
(* waits for itself.                                                       *)
HolderRuns(name) == Callees(name) \cap LockTaking = {}

(* A lock that excludes nobody. *)
LockIsFreeAlways(l) == TRUE

(* fs.Lock() returns when no one holds the lock. *)
LockIsFree(l) == l = 0

(* An Unlock that is not run. *)
UnlockSkipped(l) == l

(* defer fs.Unlock(): the lock after the holder returns. *)
Unlocked(l) == 0

Call(p, call) ==
    /\ pc[p] = "idle"
    /\ pc' = [pc EXCEPT ![p] = Entry(call)]
    /\ op' = [op EXCEPT ![p] = call]
    /\ UNCHANGED <<dbVars, lock, loc, ret, order, ghostVars, blobVars, tasks>>

Lock(p) ==
    /\ pc[p] = "lock"
    /\ LockIsFree(lock)
    /\ lock' = p
    /\ order' = IF op[p].name = "getDomainListCookie" THEN order
                ELSE Append(order, p)
    /\ pc' = [pc EXCEPT ![p] = Body(op[p])]
    /\ UNCHANGED <<dbVars, op, loc, ret, ghostVars, blobVars, tasks>>

(* The return of a lock-taking operation: the deferred Unlock runs. *)
ReturnUnlocking(p, r) ==
    /\ pc' = [pc EXCEPT ![p] = "done"]
    /\ ret' = [ret EXCEPT ![p] = r]
    /\ loc' = [loc EXCEPT ![p] = NoLoc]
    /\ lock' = Unlocked(lock)
    /\ UNCHANGED <<op, order>>

(* The return of an operation that took no lock. *)
Return(p, r) ==
    /\ pc' = [pc EXCEPT ![p] = "done"]
    /\ ret' = [ret EXCEPT ![p] = r]
    /\ loc' = [loc EXCEPT ![p] = NoLoc]
    /\ UNCHANGED <<op, order, lock>>

Goto(p, label, locals) ==
    /\ pc' = [pc EXCEPT ![p] = label]
    /\ loc' = [loc EXCEPT ![p] = locals]
    /\ UNCHANGED <<op, ret, order, lock>>

(* Save, lines 603-617: the history and the domain id. *)
SaveGet(p) ==
    /\ pc[p] = "save_get"
    /\ HolderRuns(op[p].name)
    /\ LET f == op[p].f
           history == SaveHistory(fsTab, fts, domains, f)
           domainid == SaveDomainId(domains, f)
       IN IF SaveRejects(domainid)
          THEN ReturnUnlocking(p, [err |-> ErrDomainMissing])
          ELSE Goto(p, "save_insert", [history |-> history, domainid |-> domainid])
    /\ UNCHANGED <<dbVars, ghostVars, blobVars, tasks>>

(* Save, lines 619-665: the first transaction. *)
SaveInsertStep(p) ==
    /\ pc[p] = "save_insert"
    /\ fsTab' = SaveInsert(fsTab, op[p].f, loc[p].domainid, loc[p].history, clock + 1)
    /\ clock' = clock + 1
    /\ Goto(p, "save_update", loc[p])
    /\ UNCHANGED <<fts, domains, keys, nextKey, ghostVars, blobVars, tasks>>

(* Save, lines 668-697: the second transaction. *)
SaveUpdateStep(p) ==
    /\ pc[p] = "save_update"
    /\ fsTab' = SaveUpdate(fsTab, op[p].f, loc[p].history, clock + 1)
    /\ clock' = clock + 1
    /\ Goto(p, "save_index", loc[p])
    /\ UNCHANGED <<fts, domains, keys, nextKey, ghostVars, blobVars, tasks>>

(* Save, lines 699-732: the index sync, and the return. *)
SaveIndexStep(p) ==
    /\ pc[p] = "save_index"
    /\ HolderRuns(op[p].name)
    /\ fts' = SaveIndex(fts, op[p].f)
    /\ ReturnUnlocking(p, [err |-> Nil])
    /\ UNCHANGED <<fsTab, domains, keys, clock, nextKey, ghostVars, blobVars, tasks>>

(* A database call of Save fails: Save returns the error. *)
SaveFails(p) ==
    /\ pc[p] \in {"save_insert", "save_update", "save_index"}
    /\ ReturnUnlocking(p, [err |-> ErrStorage])
    /\ UNCHANGED <<dbVars, ghostVars, blobVars, tasks>>

GetStep(p) ==
    /\ pc[p] = "get"
    /\ HolderRuns(op[p].name)
    /\ ReturnUnlocking(p, Get(fsTab, fts, domains, op[p].id, op[p].domain))
    /\ UNCHANGED <<dbVars, ghostVars, blobVars, tasks>>

(* A first query of Exists without the condition on the domain. *)
ExistsByIdInAnyDomain(fsT, doms, id, domain) ==
    {i \in DOMAIN fsT : fsT[i].id = id}

(* Exists, first query: SELECT id FROM fs WHERE id = ? AND domainid IN     *)
(* (SELECT id FROM domains WHERE name = ?).                                *)
ExistsById(fsT, doms, id, domain) ==
    {i \in DOMAIN fsT : /\ fsT[i].id = id
                        /\ fsT[i].domainid \in DomainIdsNamed(doms, domain)}

(* Exists, second query: the same with fs.slug = ?. *)
ExistsBySlug(fsT, doms, slug, domain) ==
    {i \in DOMAIN fsT : /\ fsT[i].slug = slug
                        /\ fsT[i].domainid \in DomainIdsNamed(doms, domain)}

FirstId(fsT, rows) == fsT[CHOOSE i \in rows : \A j \in rows : i <= j].id

(* Exists: the id, the flag many and the error; the empty id is "".        *)
Exists(fsT, doms, id, domain) ==
    LET byId == ExistsById(fsT, doms, id, domain)
        bySlug == ExistsBySlug(fsT, doms, id, domain)
    IN IF byId # {}
       THEN [trueID |-> FirstId(fsT, byId), many |-> FALSE, err |-> Nil]
       ELSE [trueID |-> IF bySlug # {} THEN FirstId(fsT, bySlug) ELSE "",
             many |-> Cardinality(bySlug) > 1, err |-> Nil]

ExistsIdStep(p) ==
    /\ pc[p] = "exists_id"
    /\ LET rows == ExistsById(fsTab, domains, op[p].id, op[p].domain)
       IN IF rows # {}
          THEN Return(p, [trueID |-> FirstId(fsTab, rows), many |-> FALSE,
                          err |-> Nil])
          ELSE Goto(p, "exists_slug", loc[p])
    /\ UNCHANGED <<dbVars, ghostVars, blobVars, tasks>>

ExistsSlugStep(p) ==
    /\ pc[p] = "exists_slug"
    /\ LET rows == ExistsBySlug(fsTab, domains, op[p].id, op[p].domain)
       IN Return(p, [trueID |-> IF rows # {} THEN FirstId(fsTab, rows) ELSE "",
                     many |-> Cardinality(rows) > 1, err |-> Nil])
    /\ UNCHANGED <<dbVars, ghostVars, blobVars, tasks>>

(* SetKey, lines 746-753. *)
SetKeyValidate(p) ==
    /\ pc[p] = "setkey_validate"
    /\ HolderRuns(op[p].name)
    /\ LET v == validateDomain(domains, op[p].domain, op[p].password)
       IN IF v.err # Nil
          THEN ReturnUnlocking(p, [key |-> 0, err |-> v.err])
          ELSE Goto(p, "setkey_insert", [domainid |-> v.domainid])
    /\ UNCHANGED <<dbVars, ghostVars, blobVars, tasks>>

(* SetKey, lines 754-769. *)
SetKeyInsert(p) ==
    /\ pc[p] = "setkey_insert"
    /\ keys' = Append(keys, [domainid |-> loc[p].domainid, key |-> UUID(nextKey),
                             lastused |-> clock + 1])
    /\ clock' = clock + 1
    /\ nextKey' = nextKey + 1
    /\ ReturnUnlocking(p, [key |-> UUID(nextKey), err |-> Nil])
    /\ UNCHANGED <<fsTab, fts, domains, ghostVars, blobVars, tasks>>

SetKeyFails(p) ==
    /\ pc[p] = "setkey_insert"
    /\ ReturnUnlocking(p, [key |-> 0, err |-> ErrStorage])
    /\ UNCHANGED <<dbVars, ghostVars, blobVars, tasks>>

(* Concurrent Saves and reads, every database call succeeding. *)
StepConc(p) ==
    \/ Lock(p)
    \/ SaveGet(p)
    \/ SaveInsertStep(p)
    \/ SaveUpdateStep(p)
    \/ SaveIndexStep(p)
    \/ GetStep(p)
    \/ ExistsIdStep(p)
    \/ ExistsSlugStep(p)

NextConc ==
    \E p \in Procs :
        \/ \E call \in SaveCalls \cup GetCalls \cup ExistsCalls : Call(p, call)
        \/ StepConc(p)

SpecConc == Init /\ [][NextConc]_vars

(* Concurrent lock-taking operations, with database calls that may fail. *)
FaultFiles == {f \in ConcFiles : f.Data = "d1"}

StepFault(p) ==
    \/ Lock(p)
    \/ SaveGet(p)
    \/ SaveInsertStep(p)
    \/ SaveUpdateStep(p)
    \/ SaveIndexStep(p)
    \/ SaveFails(p)
    \/ SetKeyValidate(p)
    \/ SetKeyInsert(p)
    \/ SetKeyFails(p)

NextFault ==
    \E p \in Procs :
        \/ \E call \in {[name |-> "Save", f |-> f] : f \in FaultFiles}
                        \cup SetKeyCalls : Call(p, call)
        \/ StepFault(p)

(* The scheduler runs a goroutine that can run: while some caller has a    *)
(* step to take, a step is taken.  A caller runs one operation, so no      *)
(* caller can be overtaken for ever.                                       *)
SpecFault ==
    /\ Init
    /\ [][NextFault]_vars
    /\ WF_vars(\E p \in Procs : StepFault(p))

----------------------------------------------------------------------------
(* utils.UUID and its callers.  UUID draws from the package variable src,  *)
(* a rand.NewSource without a lock of its own: src.Int63() reads the state *)
(* of the source and writes the advanced state back.  A caller is inside   *)
(* src.Int63() between these two steps.                                    *)

PageCalls == {[name |-> "createPage", domain |-> d] : d \in {Public, <<"a">>}}

(* createPage: ID: utils.UUID(), the read of src; no lock is held. *)
PageUUIDRead(p) ==
    /\ pc[p] = "page_uuid"
    /\ Goto(p, "page_int63", [n |-> nextKey])
    /\ UNCHANGED <<dbVars, ghostVars, blobVars, tasks>>

(* createPage: the write of src, the File, and the call of Save. *)
PageUUIDWrite(p) ==
    /\ pc[p] = "page_int63"
    /\ nextKey' = loc[p].n + 1
    /\ op' = [op EXCEPT ![p] =
                 [name |-> "Save",
                  f |-> [ID |-> ToString(UUID(loc[p].n)), Slug |-> "",
                         Created |-> clock, Data |-> "",
                         Domain |-> op[p].domain]]]
    /\ pc' = [pc EXCEPT ![p] = "lock"]
    /\ loc' = [loc EXCEPT ![p] = NoLoc]
    /\ UNCHANGED <<fsTab, fts, domains, keys, clock, lock, ret, order,
                   ghostVars, blobVars, tasks>>

(* SetKey, line 762: key = utils.UUID(), the read of src; SetKey holds the *)
(* store lock.                                                             *)
SetKeyUUIDRead(p) ==
    /\ pc[p] = "setkey_insert"
    /\ Goto(p, "setkey_int63", [domainid |-> loc[p].domainid, n |-> nextKey])
    /\ UNCHANGED <<dbVars, ghostVars, blobVars, tasks>>

(* SetKey, lines 762-769: the write of src, the insert and the return. *)
SetKeyUUIDWrite(p) ==
    /\ pc[p] = "setkey_int63"
    /\ nextKey' = loc[p].n + 1
    /\ keys' = Append(keys, [domainid |-> loc[p].domainid,
                             key |-> UUID(loc[p].n), lastused |-> clock + 1])
    /\ clock' = clock + 1
    /\ ReturnUnlocking(p, [key |-> UUID(loc[p].n), err |-> Nil])
    /\ UNCHANGED <<fsTab, fts, domains, ghostVars, blobVars, tasks>>

StepPage(p) ==
    \/ Lock(p)
    \/ PageUUIDRead(p)
    \/ PageUUIDWrite(p)
    \/ SaveGet(p)
    \/ SaveInsertStep(p)
    \/ SaveUpdateStep(p)
    \/ SaveIndexStep(p)
    \/ SetKeyValidate(p)
    \/ SetKeyUUIDRead(p)
    \/ SetKeyUUIDWrite(p)

(* Request handlers that create pages, beside callers of SetKey. *)
NextPage ==
    \E p \in Procs :
        \/ \E call \in PageCalls \cup SetKeyCalls : Call(p, call)
        \/ StepPage(p)

SpecPage == Init /\ [][NextPage]_vars

----------------------------------------------------------------------------
(* RWTxt.getDomainListCookie: CheckKey for each token of the cookie, each  *)
(* call taking and releasing the lock, then go func() { UpdateKeys } and   *)
(* the return.  The goroutine of process p takes the lock as NumProcs + p. *)

Cookies == {<< >>, <<1>>, <<1, 2>>}
CookieCalls == {[name |-> "getDomainListCookie", cookie |-> c] : c \in Cookies}

(* The locals of a request: the position in the cookie and, per token      *)
(* looked at, the token, the domain name CheckKey gave and whether         *)
(* domainErr == nil && domainName != "".                                   *)
CookieLocals(p) ==
    IF loc[p] = NoLoc THEN [i |-> 1, checked |-> << >>] ELSE loc[p]

RECURSIVE AllCookieTokens(_)
(* Every token of the cookie, accepted or not. *)
AllCookieTokens(checked) ==
    IF checked = << >> THEN << >>
    ELSE <<Head(checked).key>> \o AllCookieTokens(Tail(checked))

RECURSIVE KeysToUpdate(_)
(* keysToUpdate: the accepted tokens, in the order of the cookie. *)
KeysToUpdate(checked) ==
    IF checked = << >> THEN << >>
    ELSE (IF Head(checked).ok THEN <<Head(checked).key>> ELSE << >>)
            \o KeysToUpdate(Tail(checked))

RECURSIVE DomainKeysOf(_, _)
(* domainKeys[domainName] = key for each accepted token in turn. *)
DomainKeysOf(checked, m) ==
    IF checked = << >> THEN m
    ELSE DomainKeysOf(Tail(checked),
                      IF Head(checked).ok
                      THEN (Head(checked).domain :> Head(checked).key) @@ m
                      ELSE m)

(* The result: domainKeys, with domainKeys["public"] = "" set last (the    *)
(* empty key is 0), and defaultDomain, the domain of the first accepted    *)
(* token or "public".                                                      *)
CookieResult(checked) ==
    LET accepted == SelectSeq(checked, LAMBDA c : c.ok)
    IN [domainKeys |-> (Public :> 0) @@ DomainKeysOf(checked, << >>),
        defaultDomain |-> IF accepted = << >> THEN Public
                          ELSE accepted[1].domain]

(* One CheckKey of the loop; found = FALSE: its Prepare or Scan fails. *)
CookieCheckKey(p, found) ==
    /\ pc[p] = "cookie_checkkey"
    /\ LET l == CookieLocals(p)
           key == op[p].cookie[l.i]
           r == IF found THEN CheckKey(keys, domains, key)
                ELSE [domainid |-> 0, domain |-> EmptyStr, err |-> ErrStorage]
           ok == r.err = Nil /\ r.domain # EmptyStr
       IN /\ loc' = [loc EXCEPT ![p] =
                        [i |-> l.i + 1,
                         checked |-> Append(l.checked,
                             [key |-> key, domain |-> r.domain, ok |-> ok])]]
          /\ pc' = [pc EXCEPT ![p] =
                       IF l.i = Len(op[p].cookie) THEN "cookie_go" ELSE "lock"]
    /\ lock' = Unlocked(lock)
    /\ UNCHANGED <<dbVars, op, ret, order, ghostVars, blobVars, tasks>>

(* go func() { rwt.fs.UpdateKeys(keysToUpdate) }() and return. *)
CookieGo(p) ==
    /\ pc[p] = "cookie_go"
    /\ tasks' = [tasks EXCEPT ![p] =
                    [pc |-> "lock",
                     tokens |-> KeysToUpdate(CookieLocals(p).checked)]]
    /\ Return(p, CookieResult(CookieLocals(p).checked))
    /\ UNCHANGED <<dbVars, ghostVars, blobVars>>

(* The goroutine: fs.Lock() of UpdateKeys. *)
TaskLock(p) ==
    /\ tasks[p].pc = "lock"
    /\ LockIsFree(lock)
    /\ lock' = NumProcs + p
    /\ tasks' = [tasks EXCEPT ![p].pc = "run"]
    /\ UNCHANGED <<dbVars, pc, op, loc, ret, order, ghostVars, blobVars>>

(* The goroutine: the transaction of UpdateKeys and its return; the error  *)
(* goes to log.Debug.  failAt as in UpdateKeysOutcome; with no token,      *)
(* failAt = 1 is the failure of fs.DB.Begin.                               *)
TaskRun(p, failAt) ==
    /\ tasks[p].pc = "run"
    /\ failAt <= IF tasks[p].tokens = << >> THEN 1 ELSE Len(tasks[p].tokens)
    /\ LET r == UpdateKeysOutcome(keys, clock, tasks[p].tokens, failAt)
       IN /\ keys' = r.keys
          /\ clock' = r.now
          /\ tasks' = [tasks EXCEPT ![p] =
                          [pc |-> "done", tokens |-> tasks[p].tokens,
                           err |-> r.err]]
    /\ lock' = Unlocked(lock)
    /\ UNCHANGED <<fsTab, fts, domains, nextKey, pc, op, loc, ret, order,
                   ghostVars, blobVars>>

(* A caller whose SetKey has returned makes another call. *)
Again(p) ==
    /\ pc[p] = "done"
    /\ op[p].name = "SetKey"
    /\ pc' = [pc EXCEPT ![p] = "idle"]
    /\ op' = [op EXCEPT ![p] = NoOp]
    /\ ret' = [ret EXCEPT ![p] = NoRet]
    /\ UNCHANGED <<dbVars, lock, loc, order, ghostVars, blobVars, tasks>>

StepCookie(p) ==
    \/ Lock(p)
    \/ SetKeyValidate(p)
    \/ SetKeyInsert(p)
    \/ Again(p)
    \/ \E found \in BOOLEAN : CookieCheckKey(p, found)
    \/ CookieGo(p)
    \/ TaskLock(p)
    \/ \E failAt \in 0..MaxBatch : TaskRun(p, failAt)

(* Requests with a cookie, and the calls of SetKey that make the keys,     *)
(* which the first process makes before its request.                       *)
NextCookie ==
    \E p \in Procs :
        \/ \E call \in CookieCalls : Call(p, call)
        \/ /\ p = 1
           /\ nextKey < MaxKeys
           /\ Call(p, [name |-> "SetKey", domain |-> Public, password |-> EmptyStr])
        \/ StepCookie(p)

SpecCookie == Init /\ [][NextCookie]_vars

----------------------------------------------------------------------------
(* Properties of the file repository (SpecFile). *)

RECURSIVE IsSubsequence(_, _)
(* The elements of a occur in b, in the order of a. *)
IsSubsequence(a, b) ==
    IF a = << >> THEN TRUE
    ELSE IF b = << >> THEN FALSE
    ELSE IF Head(a) = Head(b) THEN IsSubsequence(Tail(a), Tail(b))
    ELSE IsSubsequence(a, Tail(b))

PairwiseDistinct(s) == \A i, j \in DOMAIN s : s[i] = s[j] => i = j

RowsOf(fsT, id) == {r \in Range(fsT) : r.id = id}

IdsOf(table) == {r.id : r \in Range(table)}

(* C1: when the successful Saves of a file id had pairwise distinct texts  *)
(* d1..dN, the stored history of the id holds d1..dN as versions in the    *)
(* order of the Saves, and its current text is dN.                         *)
C1_HistoryKeepsEverySave ==
    \A id \in FileIDs :
        (saved[id] # << >> /\ PairwiseDistinct(saved[id])) =>
            /\ RowsOf(fsTab, id) # {}
            /\ \A r \in RowsOf(fsTab, id) :
                  /\ IsSubsequence(saved[id], r.history)
                  /\ CurrentText(r.history) = saved[id][Len(saved[id])]

(* A file saved at least twice, with distinct texts, holding both. *)
C1_Witness ==
    \E id \in FileIDs :
        /\ Len(saved[id]) >= 2
        /\ PairwiseDistinct(saved[id])
        /\ \E r \in RowsOf(fsTab, id) : Len(r.history) >= 2

(* C8: after a successful Save(f) with f.Domain = D, Get(f.ID, D) returns  *)
(* exactly one file, with the ID and the Data of f and with Domain = D.    *)
C8_GetReturnsTheSavedFile ==
    (last.op = "Save" /\ last.err = Nil) =>
        LET r == Get(fsTab, fts, domains, last.f.ID, last.f.Domain)
        IN /\ r.err = Nil
           /\ Len(r.files) = 1
           /\ r.files[1].ID = last.f.ID
           /\ r.files[1].Data = last.f.Data
           /\ r.files[1].Domain = last.f.Domain

(* C9: a Save whose domain name, "public" when empty, is the name of no    *)
(* stored domain returns "domain does not exist" and leaves the tables fs  *)
(* and fts as they were.                                                   *)
C9_SaveInMissingDomainWritesNothing ==
    [][(/\ last'.op = "Save"
        /\ ~ \E i \in DOMAIN domains :
               domains[i].name = (IF last'.f.Domain = EmptyStr THEN Public
                                  ELSE last'.f.Domain))
       => (last'.err = ErrDomainMissing /\ fsTab' = fsTab /\ fts' = fts)]_vars

(* A Save was refused while the tables held a file. *)
C9_Witness ==
    /\ last.op = "Save"
    /\ last.err = ErrDomainMissing
    /\ fsTab # << >>
    /\ fts # << >>

(* C10: no step changes the domain id or the created time of a stored row. *)
C10_DomainAndCreatedAreFixed ==
    [][\A r \in Range(fsTab) :
          \E q \in Range(fsTab') :
              q.id = r.id /\ q.domainid = r.domainid /\ q.created = r.created]_vars

(* A second successful Save of an id, under another domain and with        *)
(* another Created, has run.                                               *)
C10_Witness ==
    /\ last.op = "Save"
    /\ last.err = Nil
    /\ Len(saved[last.f.ID]) >= 2
    /\ \E r \in RowsOf(fsTab, last.f.ID) :
          /\ r.created # last.f.Created
          /\ r.domainid # SaveDomainId(domains, last.f)

(* C11: when every Save so far succeeded or wrote nothing, fts holds one    *)
(* row for each id of fs and none for another id, and the text of the row  *)
(* is the text of the last successful Save of the id.                      *)
C11_IndexMirrorsThePrimaryTable ==
    /\ IdsOf(fts) = IdsOf(fsTab)
    /\ \A id \in IdsOf(fsTab) :
          /\ Cardinality({i \in DOMAIN fts : fts[i].id = id}) = 1
          /\ saved[id] # << >>
          /\ \A row \in RowsOf(fts, id) : row.data = saved[id][Len(saved[id])]

(* An id was saved twice, with two texts, and the index holds the second. *)
C11_Witness ==
    \E id \in FileIDs :
        /\ Len(saved[id]) >= 2
        /\ saved[id][1] # saved[id][Len(saved[id])]
        /\ \E row \in RowsOf(fts, id) : row.data = saved[id][Len(saved[id])]

(* C12: when a Save of an id failed after its first transaction committed  *)
(* and the next Save, of the same id, succeeds, fs and fts each hold one   *)
(* row of the id, the index text is the text of that Save, and the stored  *)
(* history holds every text the Saves of the id wrote to fs, the failed    *)
(* one included.                                                           *)
C12_RetryRepairsAndKeepsHistory ==
    [][(/\ last.op = "Save"
        /\ last.err = ErrStorage
        /\ last'.op = "Save"
        /\ last'.err = Nil
        /\ last'.f.ID = last.f.ID)
       => (/\ Cardinality({i \in DOMAIN fsTab' : fsTab'[i].id = last.f.ID}) = 1
           /\ Cardinality({i \in DOMAIN fts' : fts'[i].id = last.f.ID}) = 1
           /\ \A row \in RowsOf(fts', last.f.ID) : row.data = last'.f.Data
           /\ \A row \in RowsOf(fsTab', last.f.ID) :
                 \A text \in Range(saved'[last.f.ID]) :
                     text \in Range(row.history))]_vars

(* C13: a Save of a stored id whose domain name is the name of a stored    *)
(* domain other than the one owning the file returns an error and leaves   *)
(* the row of the file and its index row as they were.                     *)
C13_SaveFromAnotherDomainIsRefused ==
    [][(/\ last'.op = "Save"
        /\ \E row \in RowsOf(fsTab, last'.f.ID) :
               SaveDomainId(domains, last'.f) \notin {0, row.domainid})
       => (/\ last'.err # Nil
           /\ RowsOf(fsTab', last'.f.ID) = RowsOf(fsTab, last'.f.ID)
           /\ RowsOf(fts', last'.f.ID) = RowsOf(fts, last'.f.ID))]_vars

(* The arguments the reads are called with. *)
ReadDomains == FileDomains \cup {<<"A">>}
Limits == {-1, 0, 1, 2}

(* The name of the domain that owns the stored file id. *)
OwnerNames(id) == {domains[row.domainid].name : row \in RowsOf(fsTab, id)}

(* Every result GetAll, GetTopX and GetTopXMostViews can give for D. *)
ListingsOf(D) ==
    UNION {GetAll(fsTab, fts, domains, D, created) : created \in BOOLEAN}
    \cup UNION {GetTopX(fsTab, fts, domains, D, num, created) :
                   num \in Limits, created \in BOOLEAN}
    \cup UNION {GetTopXMostViews(fsTab, fts, domains, D, num) : num \in Limits}

(* Every result Find can give for D. *)
FindingsOf(D) == {Find(fsTab, fts, domains, text, D).files : text \in Contents}

(* C14: every file that GetAll(D), GetTopX(D, n), GetTopXMostViews(D, n)   *)
(* or Find(q, D) returns is a stored file whose owning domain is named D.  *)
C14_ListingsStayInTheirDomain ==
    \A D \in ReadDomains :
        /\ \A files \in ListingsOf(D) :
              \A i \in DOMAIN files : OwnerNames(files[i].ID) = {D}
        /\ \A files \in FindingsOf(D) :
              \A i \in DOMAIN files : OwnerNames(files[i].ID) = {D}

(* Two domains own one file each, both with text, and each is listed in    *)
(* its domain.                                                             *)
C14_Witness ==
    /\ \E files \in GetAll(fsTab, fts, domains, Public, FALSE) : Len(files) = 1
    /\ \E files \in GetTopX(fsTab, fts, domains, <<"a">>, 1, TRUE) : Len(files) = 1
    /\ Len(Find(fsTab, fts, domains, "d1", <<"a">>).files) = 1

(* C15: after a successful Save of a file with empty text, no GetAll and   *)
(* no Find returns the file, and Get of its id, in its domain, returns it, *)
(* with the empty text.                                                    *)
C15_EmptyTextIsUnlistedButGettable ==
    (last.op = "Save" /\ last.err = Nil /\ last.f.Data = "") =>
        /\ \A D \in ReadDomains, created \in BOOLEAN :
              \A files \in GetAll(fsTab, fts, domains, D, created) :
                  \A i \in DOMAIN files : files[i].ID # last.f.ID
        /\ \A D \in ReadDomains :
              \A files \in FindingsOf(D) :
                  \A i \in DOMAIN files : files[i].ID # last.f.ID
        /\ LET r == Get(fsTab, fts, domains, last.f.ID, last.f.Domain)
           IN /\ r.err = Nil
              /\ Len(r.files) = 1
              /\ r.files[1].ID = last.f.ID
              /\ r.files[1].Data = ""

(* A file with empty text was saved in a domain that lists another file. *)
C15_Witness ==
    /\ last.op = "Save"
    /\ last.err = Nil
    /\ last.f.Data = ""
    /\ \E files \in GetAll(fsTab, fts, domains, SaveDomainName(last.f), FALSE) :
          Len(files) = 1

(* The stored files of slug s owned by a domain named D. *)
SharingSlug(s, D) ==
    {row \in Range(fsTab) : row.slug = s /\ domains[row.domainid].name = D}

(* C16: when two or more files owned by domain D have the slug s, and s is *)
(* the id of no file, Get(s, D) returns each of them once, latest modified *)
(* time first, so that the file of the last Save, when it is one of them,  *)
(* is the first.                                                           *)
C16_SlugReturnsAllLatestFirst ==
    \A D \in ReadDomains, s \in Slugs :
        (~isID(fsTab, s) /\ Cardinality(SharingSlug(s, D)) >= 2) =>
            LET r == Get(fsTab, fts, domains, s, D)
            IN /\ r.err = Nil
               /\ Len(r.files) = Cardinality(SharingSlug(s, D))
               /\ {r.files[i].ID : i \in DOMAIN r.files}
                     = {row.id : row \in SharingSlug(s, D)}
               /\ \A i, j \in DOMAIN r.files :
                     i < j => r.files[i].Modified > r.files[j].Modified
               /\ (/\ last.op = "Save"
                   /\ last.err = Nil
                   /\ last.f.ID \in {row.id : row \in SharingSlug(s, D)})
                  => r.files[1].ID = last.f.ID

(* Two files of one domain share a slug that is no id, and the last Save   *)
(* saved one of them.                                                      *)
C16_Witness ==
    \E D \in ReadDomains, s \in Slugs :
        /\ ~isID(fsTab, s)
        /\ Cardinality(SharingSlug(s, D)) = 2
        /\ last.op = "Save"
        /\ last.err = Nil
        /\ last.f.ID \in {row.id : row \in SharingSlug(s, D)}
        /\ Len(Get(fsTab, fts, domains, s, D).files) = 2

C25_NewFileStartsItsOwnHistory ==
    [][(/\ last'.op = "Save"
        /\ last'.err = Nil
        /\ ~ isID(fsTab, last'.f.ID))
       => /\ RowsOf(fsTab', last'.f.ID) # {}
          /\ \A r \in RowsOf(fsTab', last'.f.ID) :
                r.history = NewVersionedText(last'.f.Data)]_vars

(* C27: for the id x of a file that has its row in fs and in the index,    *)
(* Get(x, D) returns, for every domain name D, without error exactly one   *)
(* file: the stored row of x with the indexed text.  (The Domain field of  *)
(* a File that Get returns is not part of the comparison.)                 *)
C27_GetByIdIgnoresTheDomain ==
    \A x \in FileIDs :
        (isID(fsTab, x) /\ idExists(fts, x)) =>
            \A D \in ReadDomains :
                LET r == Get(fsTab, fts, domains, x, D)
                IN /\ r.err = Nil
                   /\ Len(r.files) = 1
                   /\ r.files[1].ID = x
                   /\ \E row \in RowsOf(fsTab, x) :
                         /\ r.files[1].Slug = row.slug
                         /\ r.files[1].Created = row.created
                         /\ r.files[1].Modified = row.modified
                         /\ r.files[1].History = row.history
                         /\ r.files[1].Views = row.views
                   /\ \E i \in DOMAIN fts :
                         fts[i].id = x /\ r.files[1].Data = fts[i].data

(* The file of id "x" is stored in one domain, another file with the slug  *)
(* "x" is stored in another domain, and Get("x") in that other domain      *)
(* returns the file of id "x".                                             *)
C27_Witness ==
    \E D \in ReadDomains :
        /\ isID(fsTab, "x")
        /\ idExists(fts, "x")
        /\ D \notin OwnerNames("x")
        /\ \E r \in Range(fsTab) :
              r.id # "x" /\ r.slug = "x" /\ r.domainid \in DomainIdsNamed(domains, D)
        /\ Get(fsTab, fts, domains, "x", D).files[1].ID = "x"

(* The files owned by a domain named D whose id, or whose slug, is x. *)
OwnedWithId(x, D) ==
    {r \in Range(fsTab) : r.id = x /\ r.domainid \in DomainIdsNamed(domains, D)}

OwnedWithSlug(x, D) ==
    {r \in Range(fsTab) : r.slug = x /\ r.domainid \in DomainIdsNamed(domains, D)}

(* C28: Exists(x, D) returns many = true exactly when no file owned by D   *)
(* has the id x and more than one has the slug x; it returns an id that is *)
(* not empty exactly when a file owned by D has the id x or the slug x,    *)
(* and the empty id without error otherwise.                               *)
C28_ExistsReportsIdAndMany ==
    \A x \in FileIDs \cup Slugs, D \in ReadDomains :
        LET r == Exists(fsTab, domains, x, D)
        IN /\ r.many <=> (/\ OwnedWithId(x, D) = {}
                          /\ Cardinality(OwnedWithSlug(x, D)) > 1)
           /\ (r.trueID # "") <=>
                 (OwnedWithId(x, D) # {} \/ OwnedWithSlug(x, D) # {})
           /\ r.trueID = "" => r.err = Nil

(* Two files of the public domain share the slug "s", and Exists reports   *)
(* many; the id "x", which is also a slug of the domain, is not reported   *)
(* many.                                                                   *)
C28_Witness ==
    /\ Cardinality(OwnedWithSlug("s", Public)) = 2
    /\ Exists(fsTab, domains, "s", Public).many
    /\ Exists(fsTab, domains, "s", Public).trueID # ""
    /\ Exists(fsTab, domains, "s", <<"a">>).trueID = ""

(* The row with its modified time left out. *)
ModifiedAside(r) ==
    [id |-> r.id, domainid |-> r.domainid, slug |-> r.slug,
     created |-> r.created, history |-> r.history, views |-> r.views]

(* C22: a successful Save that repeats the successful Save before it (the  *)
(* same id, slug, domain and data) leaves every row of fs as it was but    *)
(* for the modified time of the saved row, so the current text and the     *)
(* history versions are those of the first Save, and leaves the index      *)
(* as it was, with its one row for the id.                                 *)
C22_RepeatedSaveChangesNothing ==
    [][(last'.op = "Save" /\ last'.err = Nil /\ last'.again) =>
          /\ Len(fsTab') = Len(fsTab)
          /\ \A i \in DOMAIN fsTab :
                /\ ModifiedAside(fsTab'[i]) = ModifiedAside(fsTab[i])
                /\ fsTab[i].id # last'.f.ID => fsTab'[i] = fsTab[i]
          /\ fts' = fts
          /\ Cardinality({i \in DOMAIN fts' : fts'[i].id = last'.f.ID}) = 1]_vars

(* A Save has repeated the Save before it, and the history of the file     *)
(* has the one version.                                                    *)
C22_Witness ==
    /\ last.op = "Save"
    /\ last.err = Nil
    /\ last.again
    /\ saved[last.f.ID] = <<last.f.Data, last.f.Data>>
    /\ \E r \in RowsOf(fsTab, last.f.ID) : r.history = <<last.f.Data>>

----------------------------------------------------------------------------
(* Properties of the blob store (SpecBlob). *)

(* C21: the stored view counter of every blob and of every cached resized  *)
(* image is the number of successful reads of it: each successful GetBlob  *)
(* or GetResizedImage of the item has raised it by one.                    *)
C21_CounterIsTheNumberOfReads ==
    \A id \in BlobIDs :
        /\ (\E r \in blobs : r.id = id) =>
               ViewsOf(blobs, id) = reads["blobs"][id]
        /\ (\E r \in cached_images : r.id = id) =>
               ViewsOf(cached_images, id) = reads["cached_images"][id]

(* C23: a GetBlob or GetResizedImage whose read found the row and whose    *)
(* update of the counter failed returns the payload of the row and no      *)
(* error.                                                                  *)
C23_FailedCountStillReturnsThePayload ==
    (/\ last.op \in {"GetBlob", "GetResizedImage"}
     /\ last.fail = "update"
     /\ last.found) =>
        /\ last.out.err = Nil
        /\ last.out.data \in Payloads

(* C33: GetResizedImage leaves every row of the table blobs as it was. *)
C33_ReadingAnImageLeavesBlobsAlone ==
    [][last'.op = "GetResizedImage" => blobs' = blobs]_vars

(* C29: InitializeDB leaves the rows of fs, of the index, of domains, of   *)
(* keys, of blobs and of cached_images as they were.                       *)
C29_InitializeDBKeepsEveryRow ==
    [][last'.op = "InitializeDB" =>
          /\ fsTab' = fsTab
          /\ fts' = fts
          /\ domains' = domains
          /\ keys' = keys
          /\ blobs' = blobs
          /\ cached_images' = cached_images]_vars

----------------------------------------------------------------------------
(* Properties of the domain directory (SpecDomain) and of the key registry *)
(* (SpecKey).                                                              *)

(* C5: no two rows of domains have names that are equal ignoring case.     *)
C5_NamesUniqueIgnoringCase ==
    \A i, j \in DOMAIN domains :
        ToLower(domains[i].name) = ToLower(domains[j].name) => i = j

(* C6: for an existing domain D, validateDomain(D, P) succeeds exactly     *)
(* when P is the password stored last for D, and fails with "incorrect     *)
(* password" otherwise; for an unknown D it fails with "does not exist".   *)
C6_OnlyTheStoredPasswordValidates ==
    \A D \in Names, P \in Passwords :
        LET v == validateDomain(domains, D, P)
        IN IF ToLower(D) \in DOMAIN storedPw
           THEN /\ (v.err = Nil) <=> (P = storedPw[ToLower(D)])
                /\ v.err \in {Nil, ErrWrongPassword}
           ELSE v.err = ErrDomainMissing

(* C24: in every state, SetDomain with the empty name and any password     *)
(* returns an error and leaves the table domains as it is.                 *)
C24_EmptyNameIsRefused ==
    \A password \in StoredPasswords :
        LET r == SetDomainOutcome(domains, EmptyStr, password)
        IN r.err # Nil /\ r.domains = domains

(* C26: in every state, for a name that has a row, UpdateDomain with the   *)
(* empty password sets the public flag and the options of the rows of the  *)
(* name, leaves every hash and every other row as it is, and every         *)
(* password validates after it as it did before; UpdateDomain with a       *)
(* password that is not empty makes that password, and no other, validate; *)
(* for a name without a row UpdateDomain returns an error and leaves the   *)
(* table as it is.                                                         *)
C26_UpdateDomainKeepsOrReplacesThePassword ==
    \A name \in Names, set \in Settings :
        LET keep == UpdateDomainOutcome(domains, name, EmptyStr, set[1], set[2])
        IN IF DomainIdsNamed(domains, name) = {}
           THEN \A password \in Passwords :
                   LET r == UpdateDomainOutcome(domains, name, password,
                                                set[1], set[2])
                   IN r.err = ErrDomainMissing /\ r.domains = domains
           ELSE /\ keep.err = Nil
                /\ Len(keep.domains) = Len(domains)
                /\ \A i \in DOMAIN domains :
                      /\ keep.domains[i].name = domains[i].name
                      /\ keep.domains[i].hashed_pass = domains[i].hashed_pass
                      /\ IF domains[i].name = name
                         THEN /\ keep.domains[i].ispublic = (IF set[1] THEN 1 ELSE 0)
                              /\ keep.domains[i].options = set[2]
                         ELSE keep.domains[i] = domains[i]
                /\ \A P \in Passwords :
                      validateDomain(keep.domains, name, P).err
                          = validateDomain(domains, name, P).err
                /\ \A password \in Passwords \ {EmptyStr} :
                      LET r == UpdateDomainOutcome(domains, name, password,
                                                   set[1], set[2])
                      IN /\ r.err = Nil
                         /\ \A P \in Passwords :
                               (validateDomain(r.domains, name, P).err = Nil)
                                   <=> (P = password)

(* C17: when the statement of one token of an UpdateKeys batch fails, the   *)
(* stored keys of the other tokens of the batch get a later last-used      *)
(* time.                                                                   *)
C17_OtherTokensAreStillTouched ==
    [][(/\ last'.op = "UpdateKeys"
        /\ last'.failAt # 0)
       => \A i \in DOMAIN keys :
             (\E j \in DOMAIN last'.tokens :
                 j # last'.failAt /\ last'.tokens[j] = keys[i].key)
             => keys'[i].lastused > keys[i].lastused]_vars

(* C18: exactly one row of domains is named "public". *)
C18_ExactlyOnePublicDomain ==
    Cardinality(DomainIdsNamed(domains, Public)) = 1

(* C19: an InitializeDB in which the creation of a table, of the virtual   *)
(* table fts or of an index failed, and so New, returns an error.          *)
C19_FailedCreationIsReported ==
    (last.op = "InitializeDB" /\ last.failing # {}) => last.err # Nil

C7_IssuedTokensResolve ==
    /\ \A t \in issued :
          LET r == CheckKey(keys, domains, t.token)
          IN /\ r.err = Nil
             /\ r.domain = ToLower(t.domain)
             /\ r.domainid \in DomainIdsNamed(domains, ToLower(t.domain))
    /\ \A k \in Tokens \ {t.token : t \in issued} :
          CheckKey(keys, domains, k).err # Nil

----------------------------------------------------------------------------
(* Properties of concurrent callers (SpecConc, SpecFault). *)

Running(p) == pc[p] \notin {"idle", "done"}
AllDone == \A p \in Procs : pc[p] = "done"
SaversOf(id) == {p \in Procs : op[p].name = "Save" /\ op[p].f.ID = id}
LockPosition(p) == CHOOSE i \in DOMAIN order : order[i] = p
LastToLock(S) == CHOOSE p \in S : \A q \in S : LockPosition(q) <= LockPosition(p)

(* C2: when two or more callers have run a successful Save of one id with  *)
(* pairwise distinct texts, and every caller has returned, the stored      *)
(* current text of the id is the text of the saver that took the lock      *)
(* last, the history holds the text of every saver, and the index holds    *)
(* the ids of the primary table; and no caller is ever stuck.              *)
C2_ConcurrentSavesAreSerialised ==
    /\ \A p \in Procs :
          Running(p) =>
              IF pc[p] = "lock" /\ lock # 0 THEN ENABLED StepConc(lock)
              ELSE ENABLED StepConc(p)
    /\ AllDone => IdsOf(fts) = IdsOf(fsTab)
    /\ \A id \in FileIDs :
          LET S == SaversOf(id)
          IN (/\ AllDone
              /\ Cardinality(S) >= 2
              /\ \A q \in S : ret[q].err = Nil
              /\ \A q, r \in S : op[q].f.Data = op[r].f.Data => q = r)
             => /\ Cardinality(RowsOf(fsTab, id)) = 1
                /\ \A row \in RowsOf(fsTab, id) :
                      /\ CurrentText(row.history) = op[LastToLock(S)].f.Data
                      /\ \A q \in S : op[q].f.Data \in Range(row.history)
                /\ \A row \in RowsOf(fts, id) :
                      row.data = op[LastToLock(S)].f.Data

(* Every caller saved the same id with a text of its own, and returned. *)
C2_Witness ==
    /\ AllDone
    /\ \E id \in FileIDs :
          /\ SaversOf(id) = Procs
          /\ \A q \in Procs : ret[q].err = Nil
          /\ \A q, r \in Procs : op[q].f.Data = op[r].f.Data => q = r

(* C3: the callers that are between fs.Lock() and their return are exactly *)
(* the holder of the lock, so at most one at a time, and a caller that has *)
(* returned, by success or by error, holds nothing; the holder can always  *)
(* take its next step; and whenever callers wait at fs.Lock(), a time      *)
(* comes when every one of them has got past it, which a caller does only  *)
(* by taking the lock.                                                     *)
C3_LockIsExclusiveAndReleased ==
    /\ [](\A p \in Procs : (pc[p] \in CriticalPcs) <=> (lock = p))
    /\ [](lock \in Procs => ENABLED StepFault(lock))
    /\ (\E p \in Procs : pc[p] = "lock") ~> (\A p \in Procs : pc[p] # "lock")

(* A caller has returned an error from inside Save while another waits,    *)
(* and the lock is free.                                                   *)
C3_Witness ==
    \E p, q \in Procs :
        /\ pc[p] = "done"
        /\ op[p].name = "Save"
        /\ ret[p].err = ErrStorage
        /\ pc[q] = "lock"
        /\ lock = 0

(* C4: an id that Exists reported to its caller is an id of the index. *)
C4_ReadsSeeIndexedFiles ==
    \A p \in Procs :
        (pc[p] = "done" /\ op[p].name = "Exists" /\ ret[p].trueID # "")
            => idExists(fts, ret[p].trueID)


(* The callers that are inside src.Int63(). *)
InsideInt63 == {p \in Procs : pc[p] \in {"page_int63", "setkey_int63"}}

(* C34: at most one caller at a time is inside src.Int63(), the call that  *)
(* advances the random source of utils.UUID.                               *)
C34_OneCallerAdvancesTheSource ==
    Cardinality(InsideInt63) <= 1

(* The requests: the processes that ran getDomainListCookie. *)
IsRequest(p) == op[p].name = "getDomainListCookie"

(* The tokens of the cookie for which CheckKey gave no error and a name. *)
AcceptedTokens(checked) ==
    LET accepted == SelectSeq(checked, LAMBDA c : c.ok)
    IN [i \in DOMAIN accepted |-> accepted[i].key]

(* C31: the step that starts the goroutine hands it exactly the tokens of  *)
(* the cookie that CheckKey accepted and is the return of the request,     *)
(* with the result computed from the CheckKey answers; that step can be    *)
(* taken whoever holds the lock; and once the request has returned, no     *)
(* step, of the goroutine or of anyone, changes what it returned.          *)
C31_KeysAreTouchedBehindTheRequest ==
    /\ [][\A p \in Procs :
             (tasks[p].pc = "none" /\ tasks'[p].pc # "none") =>
                 /\ tasks'[p].tokens = AcceptedTokens(CookieLocals(p).checked)
                 /\ Len(CookieLocals(p).checked) = Len(op[p].cookie)
                 /\ pc'[p] = "done"
                 /\ ret'[p] = CookieResult(CookieLocals(p).checked)]_vars
    /\ [](\A p \in Procs : pc[p] = "cookie_go" => ENABLED CookieGo(p))
    /\ [][\A p \in Procs :
             (IsRequest(p) /\ pc[p] = "done") =>
                 (pc'[p] = "done" /\ ret'[p] = ret[p])]_vars

(* A request has returned with a token accepted and another refused, while *)
(* another caller holds the lock and the goroutine of the request waits    *)
(* for it.                                                                 *)
C31_Witness ==
    \E p \in Procs :
        /\ IsRequest(p)
        /\ pc[p] = "done"
        /\ op[p].cookie = <<1, 2>>
        /\ tasks[p].pc = "lock"
        /\ tasks[p].tokens = <<1>>
        /\ lock # 0
        /\ ret[p].defaultDomain = Public

(* C32: when a storage operation returns, the transaction it began has     *)
(* been committed or rolled back: none is left open once the lock is       *)
(* released, on the error paths as on success.                             *)
C32_NoTransactionOutlivesItsOperation ==
    (last.op \in {"SetKey", "UpdateKeys"} /\ "tx" \in DOMAIN last)
        => last.tx \in {"none", "committed", "ended"}

============================================================================
